---------------------------- MODULE Spec2Model ----------------------------
(***************************************************************************)
(* A model of ch01/url.py: the URL class (the resource-identifier parser,  *)
(* the per-scheme fetch strategies, the hand-rolled HTTP/1.1 response      *)
(* reader) and its text extractor.                                         *)
(*                                                                         *)
(* A Python str or bytes value is a sequence of one-character strings:     *)
(* "http" is <<"h","t","t","p">>.  The str methods the code calls (split,  *)
(* startswith, endswith, strip, rstrip, casefold, join, in) are operators  *)
(* that compute what CPython computes.                                     *)
(***************************************************************************)
EXTENDS Integers, Sequences, FiniteSets, TLC

VARIABLES
    url,               \* the string given to URL(...)
    self,              \* the URL object constructed from url
    slashed,           \* the URL object constructed from url + "/"
    response,          \* what get() returned or raised
    fs,                \* the filesystem: path -> entry
    page,              \* the html given to extract_text_from_html
    html,              \* its local html: the text not yet scanned
    in_tag,            \* its local in_tag
    text,              \* its local text
    pc,                \* where the running method stands
    sock,              \* the socket s of get_from_network: none, open, closed
    packet,            \* the request written to the socket
    stream,            \* the bytes the peer sent that are not yet read
    sent,              \* the message the peer sent, as the peer composed it
    status_code,       \* locals of get_from_network
    status_text,
    response_headers,
    body

parseVars == <<url, self, slashed>>
textVars == <<page, html, in_tag, text>>
netVars == <<sock, packet, stream, sent, status_code, status_text,
             response_headers, body>>
vars == <<url, self, slashed, response, fs, page, html, in_tag, text, pc, sock,
          packet, stream, sent, status_code, status_text, response_headers,
          body>>

-----------------------------------------------------------------------------
(* Bounds of the model.                                                    *)

\* Longest tail, in tokens, appended to a scheme word to form an input URL.
MaxTail == 5

-----------------------------------------------------------------------------
(* Characters.                                                             *)

CR == "\r"
LF == "\n"
SP == " "
TAB == "\t"

-----------------------------------------------------------------------------
(* str methods.                                                            *)

\* s.startswith(p)
StartsWith(s, p) == Len(s) >= Len(p) /\ SubSeq(s, 1, Len(p)) = p

\* s.endswith(p)
EndsWith(s, p) ==
    Len(s) >= Len(p) /\ SubSeq(s, Len(s) - Len(p) + 1, Len(s)) = p

\* s.find(sep) + 1: the position of the first occurrence of sep in s, 0 if none.
Find(s, sep) ==
    LET hits == {i \in 1..(Len(s) - Len(sep) + 1) : SubSeq(s, i, i + Len(sep) - 1) = sep}
    IN IF hits = {} THEN 0 ELSE CHOOSE i \in hits : \A j \in hits : i <= j

\* sep in s
Contains(s, sep) == Find(s, sep) # 0

\* s.split(sep, maxsplit): cut at the leftmost occurrences of sep, at most
\* maxsplit times.
RECURSIVE SplitMax(_, _, _)
SplitMax(s, sep, maxsplit) ==
    LET i == Find(s, sep)
    IN IF maxsplit = 0 \/ i = 0
       THEN <<s>>
       ELSE <<SubSeq(s, 1, i - 1)>>
            \o SplitMax(SubSeq(s, i + Len(sep), Len(s)), sep, maxsplit - 1)

\* s.split(sep): cut at every (non-overlapping, leftmost first) occurrence.
Split(s, sep) == SplitMax(s, sep, Len(s))

\* sep.join(parts)
RECURSIVE Join(_, _)
Join(parts, sep) ==
    IF parts = <<>> THEN <<>>
    ELSE IF Len(parts) = 1 THEN parts[1]
    ELSE parts[1] \o sep \o Join(Tail(parts), sep)

\* [p for p in parts if p != ""]
RECURSIVE NonEmpty(_)
NonEmpty(parts) ==
    IF parts = <<>> THEN <<>>
    ELSE IF parts[1] = <<>> THEN NonEmpty(Tail(parts))
    ELSE <<parts[1]>> \o NonEmpty(Tail(parts))

-----------------------------------------------------------------------------
(* The literals of URL.__init__.                                           *)

HTTP == <<"h", "t", "t", "p">>
HTTPS == <<"h", "t", "t", "p", "s">>
FILE == <<"f", "i", "l", "e">>
DATA == <<"d", "a", "t", "a">>
FTP == <<"f", "t", "p">>
DataPrefix == <<"d", "a", "t", "a", ":">>
SchemeSep == <<":", "/", "/">>
Slash == <<"/">>
Colon == <<":">>
Comma == <<",">>

\* ["http", "https", "file", "data"]
Schemas == {HTTP, HTTPS, FILE, DATA}

\* Python's None, as an attribute value that is no string.
None == <<"None">>

\* self.port: an int (the default), a str (the text of the authority) or None.
PortInt(n) == [kind |-> "int", num |-> n, text |-> <<>>]
PortStr(t) == [kind |-> "str", num |-> 0, text |-> t]
PortNone == [kind |-> "None", num |-> 0, text |-> <<>>]

\* A URL object: raised names the exception __init__ ended with ("" when it
\* returned); has_path is whether the attribute self.path was ever assigned.
Object(raised, schema, host, port, has_path, path) ==
    [raised |-> raised, schema |-> schema, host |-> host, port |-> port,
     has_path |-> has_path, path |-> path]

\* No URL object: __init__ raised.
Raise(e) == Object(e, <<>>, None, PortNone, FALSE, <<>>)

\* Before the constructor is called.
NotConstructed == Raise("not constructed")


-----------------------------------------------------------------------------
(* URL.__init__                                                            *)

\* url.split("data:")[1].split(",")
DataPath(u) == Split(Split(u, DataPrefix)[2], Comma)

\* The schema: "data" for a url that starts with "data:", else the text
\* before the first "://" (the whole url when it holds none).
SchemaOf(u) ==
    IF StartsWith(u, DataPrefix) THEN DATA ELSE Split(u, SchemeSep)[1]

\* if not url.endswith("/"): url += "/"
Normalize(u) == IF EndsWith(u, Slash) THEN u ELSE u \o Slash

\* The authority of an (already normalized) url: url.split("://")[1].split("/")[0]
Authority(u) == Split(Split(u, SchemeSep)[2], Slash)[1]

\* self.port: the text between the first and the second ":" of the authority,
\* or else 80 for http and 443 for every other schema.
PortOf(schema, authority) ==
    IF Contains(authority, Colon)
    THEN PortStr(Split(authority, Colon)[2])
    ELSE PortInt(IF schema = HTTP THEN 80 ELSE 443)

\* self.host: the authority up to its first ":".
HostOf(authority) ==
    IF Contains(authority, Colon) THEN Split(authority, Colon)[1] ELSE authority

\* A plausible slip: the path taken from the url as given, without the
\* trailing "/" appended and without the empty segments dropped.
ParsePathUnnormalized(u) == Tail(Split(Split(u, SchemeSep)[2], Slash))

\* self.path of an http, https or file url as given: the url normalized, its
\* text between the first and the second "://" cut at "/", the first piece
\* (the authority) dropped, and the empty pieces dropped.
ParsePath(u) ==
    NonEmpty(Tail(Split(Split(Normalize(u), SchemeSep)[2], Slash)))

\* URL(url): the object constructed, or the exception raised.
URL_init(u) ==
    LET schema == SchemaOf(u)
    IN IF schema \notin Schemas THEN Raise("ValueError")
       ELSE IF schema = DATA
       THEN \* self.path is assigned only inside the startswith("data:") branch
            IF StartsWith(u, DataPrefix)
            THEN Object("", DATA, None, PortNone, TRUE, DataPath(u))
            ELSE Object("", DATA, None, PortNone, FALSE, <<>>)
       ELSE IF Len(Split(Normalize(u), SchemeSep)) < 2
       THEN Raise("IndexError")    \* url.split("://")[1] of a url without "://"
       ELSE LET authority == Authority(Normalize(u))
            IN Object("", schema, HostOf(authority), PortOf(schema, authority),
                      TRUE, ParsePath(u))

-----------------------------------------------------------------------------
(* HTTPResponse and URL.get_from_data                                      *)

OK == <<"O", "K">>

\* An HTTPResponse; headers is the dict as a set of <<name, value>> pairs.
HTTPResponse(code, reason, hdrs, bytes) ==
    [raised |-> "", status_code |-> code, status_text |-> reason,
     headers |-> hdrs, body |-> bytes]

\* No HTTPResponse: the fetch raised e.
Raised(e) ==
    [raised |-> e, status_code |-> 0, status_text |-> <<>>, headers |-> {},
     body |-> <<>>]

\* Before any fetch.
NoResponse == Raised("no response")

\* str.encode("utf-8") of the characters of the model, all of them ASCII: one
\* byte per character, the same code.
EncodeUtf8(s) == s

\* get_from_data: the body is self.path[1], the second piece of the payload.
get_from_data(obj) ==
    IF ~obj.has_path THEN Raised("AttributeError")
    ELSE IF Len(obj.path) < 2 THEN Raised("IndexError")
    ELSE HTTPResponse(200, OK, {}, EncodeUtf8(obj.path[2]))

-----------------------------------------------------------------------------
(* The inputs: a scheme word (or none) followed by up to MaxTail tokens.   *)

Prefixes == {<<>>, HTTP, HTTPS, FILE, DATA, FTP}
Tokens == {<<"a">>, Colon, Slash, Comma, SchemeSep}

RECURSIVE Flatten(_)
Flatten(parts) ==
    IF parts = <<>> THEN <<>> ELSE parts[1] \o Flatten(Tail(parts))

Tails == UNION {[1..n -> Tokens] : n \in 0..MaxTail}
Inputs == {p \o Flatten(t) : p \in Prefixes, t \in Tails}

-----------------------------------------------------------------------------
(* The parser's specification: a caller constructs URL(url), constructs    *)
(* URL(url + "/") beside it, and fetches from a data identifier.           *)

\* The parts of the state a specification does not use stay as they are here.
NoFileSystem == <<>>
NoMessage == [wellformed |-> FALSE]
FileIdle == fs = NoFileSystem
TextIdle == page = <<>> /\ html = <<>> /\ in_tag = FALSE /\ text = <<>>
NetIdle ==
    /\ sock = "none"
    /\ packet = <<>>
    /\ stream = <<>>
    /\ sent = NoMessage
    /\ status_code = <<>>
    /\ status_text = <<>>
    /\ response_headers = {}
    /\ body = <<>>

InitURL ==
    /\ url \in Inputs
    /\ self = NotConstructed
    /\ slashed = NotConstructed
    /\ response = NoResponse
    /\ pc = "idle"
    /\ FileIdle /\ TextIdle /\ NetIdle

\* URL(url)
Construct ==
    /\ self = NotConstructed
    /\ self' = URL_init(url)
    /\ UNCHANGED <<url, slashed, response, fs, pc, textVars, netVars>>

\* URL(url + "/")
ConstructSlashed ==
    /\ slashed = NotConstructed
    /\ slashed' = URL_init(url \o Slash)
    /\ UNCHANGED <<url, self, response, fs, pc, textVars, netVars>>

\* self.get() on a data identifier: the dispatch to get_from_data.
GetData ==
    /\ self.raised = ""
    /\ self.schema = DATA
    /\ response = NoResponse
    /\ response' = get_from_data(self)
    /\ UNCHANGED <<parseVars, fs, pc, textVars, netVars>>

NextURL == Construct \/ ConstructSlashed \/ GetData

SpecURL == InitURL /\ [][NextURL]_vars

-----------------------------------------------------------------------------
(* Claims about the parser, checked under SpecURL.                         *)

NetworkOrFile == {HTTP, HTTPS, FILE}

\* The scheme token of an input as the specification defines it: the text to
\* the left of the first "://", or the whole input when it holds none.
SchemeToken(u) == SplitMax(u, SchemeSep, 1)[1]

\* All of s after the first occurrence of sep (s holds one).
AfterFirst(s, sep) == SplitMax(s, sep, 1)[2]

\* C1: for an input with scheme http, https or file that does not end with
\* "/", URL(url) and URL(url + "/") both succeed or both fail, and when they
\* succeed they have the same schema, host, port and path segments.
C1_TrailingSlashNormalized ==
    ( /\ self # NotConstructed
      /\ slashed # NotConstructed
      /\ ~EndsWith(url, Slash)
      /\ SchemeToken(url) \in NetworkOrFile )
    => /\ (self.raised = "") <=> (slashed.raised = "")
       /\ self.raised = "" =>
            /\ self.schema = slashed.schema
            /\ self.host = slashed.host
            /\ self.port = slashed.port
            /\ self.has_path = slashed.has_path
            /\ self.path = slashed.path

\* C1's case: an https url with a host and a path, given without its
\* trailing "/", has been constructed both ways.
C1_Witness ==
    /\ ~EndsWith(url, Slash)
    /\ self.raised = ""
    /\ slashed.raised = ""
    /\ self.schema = HTTPS
    /\ self.host # <<>>
    /\ self.path # <<>>

\* C2: an input that does not begin with "data:" and whose scheme token is
\* none of http, https, file is rejected with ValueError.
C2_InvalidSchemeRejected ==
    ( /\ self # NotConstructed
      /\ ~StartsWith(url, DataPrefix)
      /\ SchemeToken(url) \notin NetworkOrFile )
    => self.raised = "ValueError"

\* C3: the path segments of an http, https or file identifier are the
\* non-empty "/"-delimited components of the whole remainder of the input
\* after its first "://", the first component (the authority) removed.
C3_PathIsWholeRemainder ==
    (self.raised = "" /\ self.schema \in NetworkOrFile)
    => /\ self.has_path
       /\ self.path = NonEmpty(Tail(Split(AfterFirst(url, SchemeSep), Slash)))

\* C4: host is present iff the schema is http, https or file (null for
\* data); port is present iff the schema is http or https, where it is the
\* text after ":" in the authority, or 80 (http) / 443 (https) without one;
\* port is null for file and data.
C4_HostPortPresence ==
    self.raised = "" =>
      /\ (self.host # None) <=> (self.schema \in NetworkOrFile)
      /\ (self.port # PortNone) <=> (self.schema \in {HTTP, HTTPS})
      /\ self.schema \in {HTTP, HTTPS} =>
           LET authority == Split(AfterFirst(url, SchemeSep), Slash)[1]
           IN self.port = IF Contains(authority, Colon)
                          THEN PortStr(AfterFirst(authority, Colon))
                          ELSE PortInt(IF self.schema = HTTP THEN 80 ELSE 443)

\* C5: an input that begins with "data:" parses to schema data with the
\* two-part payload {media descriptor, payload} cut at the first comma of the
\* text after the prefix, and Data Fetch returns 200, "OK", no headers and a
\* body that is all of the text after that first comma.
C5_DataFetchVerbatim ==
    LET rest == SubSeq(url, Len(DataPrefix) + 1, Len(url))
    IN ( /\ self # NotConstructed
         /\ StartsWith(url, DataPrefix)
         /\ Contains(rest, Comma) )
       => /\ self.raised = ""
          /\ self.schema = DATA
          /\ self.has_path
          /\ self.path = SplitMax(rest, Comma, 1)
          /\ response # NoResponse =>
               response = HTTPResponse(200, OK, {}, AfterFirst(rest, Comma))

\* C9: constructing an identifier from any input either succeeds or fails
\* with ValueError, never with another kind of error.
C9_OnlyValueError ==
    self # NotConstructed => self.raised \in {"", "ValueError"}

-----------------------------------------------------------------------------
(* URL.get_from_file                                                       *)

\* Longest file content, in bytes.
MaxContent == 2

\* A filesystem entry: what os.path.exists, os.path.isdir, os.access(R_OK)
\* and open(path).read() see at a path.
Missing == [kind |-> "missing", readable |-> FALSE, content |-> <<>>]
Directory(r) == [kind |-> "dir", readable |-> r, content |-> <<>>]
RegularFile(r, bytes) == [kind |-> "file", readable |-> r, content |-> bytes]

\* The entry at a path; a path the filesystem does not hold (the empty path
\* among them) does not exist.
Lookup(fsys, path) == IF path \in DOMAIN fsys THEN fsys[path] ELSE Missing

\* f.read() of a file opened with open(path, "r"): text mode with universal
\* newlines, which hands "\r\n" and a lone "\r" over as "\n".  The bytes of
\* the model are ASCII, which the locale's decoding maps to the same characters.
RECURSIVE ReadText(_)
ReadText(bytes) ==
    IF bytes = <<>> THEN <<>>
    ELSE IF StartsWith(bytes, <<CR, LF>>) THEN <<LF>> \o ReadText(SubSeq(bytes, 3, Len(bytes)))
    ELSE IF bytes[1] = CR THEN <<LF>> \o ReadText(Tail(bytes))
    ELSE <<bytes[1]>> \o ReadText(Tail(bytes))

\* get_from_file: the checks in the order of the code, then the read.
get_from_file(obj, fsys) ==
    LET path == Join(obj.path, Slash)
        entry == Lookup(fsys, path)
    IN IF entry.kind = "missing" THEN Raised("FileNotFoundError")
       ELSE IF entry.kind = "dir" THEN Raised("IsADirectoryError")
       ELSE IF ~entry.readable THEN Raised("PermissionError")
       ELSE HTTPResponse(200, OK, {}, EncodeUtf8(ReadText(entry.content)))

\* The file identifiers fetched: file://, file://./a, file://./a/b and
\* file://.//a//b/
FileUrls ==
    { FILE \o SchemeSep,
      FILE \o SchemeSep \o <<".", "/", "a">>,
      FILE \o SchemeSep \o <<".", "/", "a", "/", "b">>,
      FILE \o SchemeSep \o <<".", "/", "/", "a", "/", "/", "b", "/">> }

PathA == <<"a">>
PathAB == <<"a", "/", "b">>

Contents == UNION {[1..n -> {"a", CR, LF}] : n \in 0..MaxContent}
Entries ==
    {Missing} \cup {Directory(r) : r \in BOOLEAN}
    \cup {RegularFile(r, c) : r \in BOOLEAN, c \in Contents}

\* The filesystems: a/b exists only inside a directory a.
FileSystems ==
    {f \in [{PathA, PathAB} -> Entries] :
        f[PathAB].kind # "missing" => f[PathA].kind = "dir"}

InitFile ==
    /\ url \in FileUrls
    /\ self = URL_init(url)
    /\ slashed = NotConstructed
    /\ response = NoResponse
    /\ fs \in FileSystems
    /\ pc = "idle"
    /\ TextIdle /\ NetIdle

\* self.get() on a file identifier: the dispatch to get_from_file.
GetFile ==
    /\ self.raised = ""
    /\ self.schema = FILE
    /\ response = NoResponse
    /\ response' = get_from_file(self, fs)
    /\ UNCHANGED <<parseVars, fs, pc, textVars, netVars>>

NextFile == GetFile

SpecFile == InitFile /\ [][NextFile]_vars

\* C7: File Fetch on the joined path has exactly one outcome, decided in this
\* order: not found if the path does not exist; else is-a-directory; else
\* permission denied if unreadable; else a Response with 200, "OK", no
\* headers and the full file content as body.
C7_FileFetchOutcome ==
    response # NoResponse =>
      LET entry == Lookup(fs, Join(self.path, Slash))
      IN response =
           IF entry.kind = "missing" THEN Raised("FileNotFoundError")
           ELSE IF entry.kind = "dir" THEN Raised("IsADirectoryError")
           ELSE IF ~entry.readable THEN Raised("PermissionError")
           ELSE HTTPResponse(200, OK, {}, entry.content)

-----------------------------------------------------------------------------
(* URL.extract_text_from_html                                              *)

\* Longest html given to the extractor, in characters.
MaxHtml == 4

LessThan == <<"<">>
GreaterThan == <<">">>
EntityLt == <<"&", "l", "t", ";">>
EntityGt == <<"&", "g", "t", ";">>

Pages == UNION {[1..n -> {"<", ">", "&", "l", "g", "t", ";", "a"}] : n \in 0..MaxHtml}

InitText ==
    /\ page \in Pages
    /\ html = page
    /\ in_tag = FALSE
    /\ text = <<>>
    /\ pc = "scan"
    /\ url = <<>>
    /\ self = NotConstructed
    /\ slashed = NotConstructed
    /\ response = NoResponse
    /\ FileIdle /\ NetIdle

\* One turn of the loop "while html:".
ExtractStep ==
    /\ pc = "scan"
    /\ html # <<>>
    /\ LET opens == StartsWith(html, LessThan) \/ StartsWith(html, EntityLt)
           closes == StartsWith(html, GreaterThan) \/ StartsWith(html, EntityGt)
       IN /\ in_tag' = IF opens THEN TRUE ELSE IF closes THEN FALSE ELSE in_tag
          /\ text' = IF ~opens /\ ~closes /\ ~in_tag THEN Append(text, html[1])
                     ELSE text
    /\ html' = Tail(html)
    /\ UNCHANGED <<page, pc, parseVars, response, fs, netVars>>

\* The loop ends on the empty html: return text.
ExtractReturn ==
    /\ pc = "scan"
    /\ html = <<>>
    /\ pc' = "done"
    /\ UNCHANGED <<textVars, parseVars, response, fs, netVars>>

NextText == ExtractStep \/ ExtractReturn

SpecText == InitText /\ [][NextText]_vars

\* The scan the specification describes: "<" or "&lt;" sets the flag, ">" or
\* "&gt;" clears it, no character of a recognized delimiter is copied, and
\* any other character is copied exactly when the flag is clear.
RECURSIVE DescribedScan(_, _)
DescribedScan(s, flag) ==
    IF s = <<>> THEN <<>>
    ELSE IF StartsWith(s, LessThan) THEN DescribedScan(Tail(s), TRUE)
    ELSE IF StartsWith(s, EntityLt) THEN DescribedScan(SubSeq(s, 5, Len(s)), TRUE)
    ELSE IF StartsWith(s, GreaterThan) THEN DescribedScan(Tail(s), FALSE)
    ELSE IF StartsWith(s, EntityGt) THEN DescribedScan(SubSeq(s, 5, Len(s)), FALSE)
    ELSE (IF flag THEN <<>> ELSE <<s[1]>>) \o DescribedScan(Tail(s), flag)

\* C8: the extractor's output is that of the described scan, in which no
\* character of "<", ">", "&lt;" or "&gt;" reaches the output.
C8_ExtractIsDescribedScan ==
    pc = "done" => text = DescribedScan(page, FALSE)

-----------------------------------------------------------------------------
(* URL.get_from_network: connect, send the request, read the response.     *)

\* Most header lines in a message the peer sends.
MaxHeaders == 2

CRLF == <<CR, LF>>
Space == <<SP>>

\* The characters str.strip() removes (those of them the model holds).
Whitespace == {SP, TAB, CR, LF}

\* s.strip()
RECURSIVE Strip(_)
Strip(s) ==
    IF s = <<>> THEN s
    ELSE IF s[1] \in Whitespace THEN Strip(Tail(s))
    ELSE IF s[Len(s)] \in Whitespace THEN Strip(SubSeq(s, 1, Len(s) - 1))
    ELSE s

\* s.rstrip("\r\n"): every trailing "\r" and "\n" removed.
RECURSIVE RStripNewlines(_)
RStripNewlines(s) ==
    IF s # <<>> /\ s[Len(s)] \in {CR, LF}
    THEN RStripNewlines(SubSeq(s, 1, Len(s) - 1))
    ELSE s

UpperCase == <<"A", "B", "C", "D", "E", "F", "G", "H", "I", "J", "K", "L", "M", "N", "O", "P", "Q", "R", "S", "T", "U", "V", "W", "X", "Y", "Z">>
LowerCase == <<"a", "b", "c", "d", "e", "f", "g", "h", "i", "j", "k", "l", "m", "n", "o", "p", "q", "r", "s", "t", "u", "v", "w", "x", "y", "z">>

\* c.casefold() of one ASCII character.
CasefoldChar(c) ==
    IF \E i \in 1..Len(UpperCase) : UpperCase[i] = c
    THEN LowerCase[CHOOSE i \in 1..Len(UpperCase) : UpperCase[i] = c]
    ELSE c

\* s.casefold()
Casefold(s) == [i \in 1..Len(s) |-> CasefoldChar(s[i])]

Digits == <<"0", "1", "2", "3", "4", "5", "6", "7", "8", "9">>

\* Whether int(s) accepts s, for the characters of the model: a non-empty run
\* of decimal digits.
IsNumeric(s) ==
    s # <<>> /\ \A i \in 1..Len(s) : \E d \in 1..10 : Digits[d] = s[i]

\* int(s) of such a run.
RECURSIVE IntOf(_)
IntOf(s) ==
    IF s = <<>> THEN 0
    ELSE 10 * IntOf(SubSeq(s, 1, Len(s) - 1))
         + (CHOOSE d \in 1..10 : Digits[d] = s[Len(s)]) - 1

\* response.readline(): the bytes up to and including the first "\n", or all
\* that is left when there is none (then the stream has ended).
ReadLine(bytes) ==
    IF Contains(bytes, <<LF>>) THEN SubSeq(bytes, 1, Find(bytes, <<LF>>)) ELSE bytes

\* What readline leaves unread.
AfterLine(bytes) == SubSeq(bytes, Len(ReadLine(bytes)) + 1, Len(bytes))

\* status.split(" ", 2)
SplitStatus(line) == SplitMax(line, Space, 2)

\* A plausible slip: line.split(":") without the limit of one cut.
SplitHeaderEveryColon(line) == Split(line, Colon)

\* line.split(":", 1)
SplitHeader(line) == SplitMax(line, Colon, 1)

\* response_headers[name] = value: a later value replaces an earlier one.
SetItem(hdrs, name, value) == {p \in hdrs : p[1] # name} \cup {<<name, value>>}

\* default_request_headers(), each as "k: v", in the dict's order.
RequestHeaderLines(obj) ==
    << <<"H", "o", "s", "t", ":", SP>> \o obj.host,
       <<"C", "o", "n", "n", "e", "c", "t", "i", "o", "n", ":", SP, "c", "l", "o", "s", "e">>,
       <<"U", "s", "e", "r", "-", "A", "g", "e", "n", "t", ":", SP, "P", "y", "t", "h", "o", "n", SP, "H", "T", "T", "P", SP, "C", "l", "i", "e", "n", "t">> >>

\* The request of get_from_network:
\* "GET /<path joined with /> HTTP/1.1\r\n" + the header lines joined with
\* "\r\n" + "\r\n\r\n"
Packet(obj) ==
    <<"G", "E", "T", SP, "/">> \o Join(obj.path, Slash) \o <<SP, "H", "T", "T", "P", "/", "1", ".", "1">> \o CRLF
    \o Join(RequestHeaderLines(obj), CRLF) \o CRLF \o CRLF

-----------------------------------------------------------------------------
(* The peer.  A well-formed message is a status line (version, numeric      *)
(* code, reason phrase), header lines (a name, ":", a value inside optional *)
(* padding), an empty line and a body, every line ended by "\r\n".          *)

Versions == {<<"H", "T", "T", "P", "/", "1", ".", "1">>}
Codes == {<<"2", "0", "0">>, <<"4", "0", "4">>, <<"0", "7">>}
Reasons == {<<>>, OK, <<"N", "o", "t", SP, "F", "o", "u", "n", "d">>, <<"O", "K", SP>>}
Bodies == {<<>>, <<"<", "h", "1", ">", "a", "<", "/", "h", "1", ">">>, <<"b", CR, LF, CR, LF, "c", ":", SP, "d">>}

\* A header line as the peer composed it: the name as written, the key a
\* case-insensitive reader files it under, and the value between its padding.
Header(name, key, lpad, value, rpad) ==
    [name |-> name, key |-> key, lpad |-> lpad, value |-> value, rpad |-> rpad]

HeaderLines ==
    { Header(<<"A", "b">>, <<"a", "b">>, Space, <<"x">>, <<>>),
      Header(<<"a", "b">>, <<"a", "b">>, <<>>, <<"y">>, Space),
      Header(<<"a", "B">>, <<"a", "b">>, <<TAB>>, <<"x", ":", "y">>, <<>>),
      Header(<<"B">>, <<"b">>, Space, <<"x", SP, "y">>, <<SP, TAB>>),
      Header(<<"b">>, <<"b">>, <<>>, <<>>, <<>>),
      Header(<<"C", "o", "n", "t", "e", "n", "t", "-", "T", "y", "p", "e">>, <<"c", "o", "n", "t", "e", "n", "t", "-", "t", "y", "p", "e">>, Space, <<"t", "e", "x", "t", "/", "h", "t", "m", "l", ";", SP, "c", "h", "a", "r", "s", "e", "t", "=", "U", "T", "F", "-", "8">>, <<>>) }

Messages ==
    { [wellformed |-> TRUE, version |-> v, code |-> c, reason |-> r,
       headers |-> h, body |-> b] :
        v \in Versions, c \in Codes, r \in Reasons,
        h \in UNION {[1..n -> HeaderLines] : n \in 0..MaxHeaders}, b \in Bodies }

RECURSIVE RenderHeaders(_)
RenderHeaders(hs) ==
    IF hs = <<>> THEN <<>>
    ELSE hs[1].name \o Colon \o hs[1].lpad \o hs[1].value \o hs[1].rpad \o CRLF
         \o RenderHeaders(Tail(hs))

\* The bytes of a message on the wire.
Render(m) ==
    m.version \o Space \o m.code \o Space \o m.reason \o CRLF
    \o RenderHeaders(m.headers) \o CRLF \o m.body

\* Replies that are not well formed: nothing at all; a status line of two
\* fields; a status code that is no number; a header line without a colon;
\* the stream ending before the empty line; lines ended by a bare "\n".
MalformedReplies ==
    { <<>>,
      <<"H", "T", "T", "P", "/", "1", ".", "1", SP, "2", "0", "0", CR, LF, CR, LF>>,
      <<"H", "T", "T", "P", "/", "1", ".", "1", SP, "2", "0", "x", SP, "O", "K", CR, LF, CR, LF>>,
      <<"H", "T", "T", "P", "/", "1", ".", "1", SP, "2", "0", "0", SP, "O", "K", CR, LF, "n", "o", "c", "o", "l", "o", "n", CR, LF, CR, LF>>,
      <<"H", "T", "T", "P", "/", "1", ".", "1", SP, "2", "0", "0", SP, "O", "K", CR, LF, "A", ":", SP, "x", CR, LF>>,
      <<"H", "T", "T", "P", "/", "1", ".", "1", SP, "2", "0", "0", SP, "O", "K", LF, "A", ":", SP, "x", LF, LF>> }

\* The identifiers fetched: http://a, https://a/a/b and http://a:8/a
NetworkUrls ==
    { HTTP \o SchemeSep \o <<"a">>,
      HTTPS \o SchemeSep \o <<"a", "/", "a", "/", "b">>,
      HTTP \o SchemeSep \o <<"a", ":", "8", "/", "a">> }

-----------------------------------------------------------------------------
(* get_from_network, statement by statement.                               *)

InitHTTP ==
    /\ url \in NetworkUrls
    /\ self = URL_init(url)
    /\ slashed = NotConstructed
    /\ response = NoResponse
    /\ pc = "connect"
    /\ FileIdle /\ TextIdle /\ NetIdle

\* An exception leaves get_from_network: nothing after the raising statement
\* runs, and the method has no try/finally.
Propagate(e) ==
    /\ pc' = "raised"
    /\ response' = Raised(e)

\* s = self.connect(): the socket is created, wrapped for https, connected.
Connect ==
    /\ pc = "connect"
    /\ self.port.kind = "int"
    /\ sock' = "open"
    /\ pc' = "send"
    /\ UNCHANGED <<parseVars, response, fs, textVars, packet, stream, sent,
                   status_code, status_text, response_headers, body>>

\* self.connect() raises after socket.socket(...) has made the socket: the
\* TLS wrap or s.connect fails (OSError), or the port is the str a url with
\* an explicit port carries, which s.connect refuses (TypeError).
ConnectFails ==
    /\ pc = "connect"
    /\ sock' = "open"
    /\ Propagate(IF self.port.kind = "int" THEN "OSError" ELSE "TypeError")
    /\ UNCHANGED <<parseVars, fs, textVars, packet, stream, sent, status_code,
                   status_text, response_headers, body>>

\* s.send(packet.encode("utf-8"))
Send ==
    /\ pc = "send"
    /\ packet' = EncodeUtf8(Packet(self))
    /\ pc' = "reply"
    /\ UNCHANGED <<parseVars, response, fs, textVars, sock, stream, sent,
                   status_code, status_text, response_headers, body>>

\* s.send raises.
SendFails ==
    /\ pc = "send"
    /\ Propagate("OSError")
    /\ UNCHANGED <<parseVars, fs, textVars, netVars>>

\* The peer answers with a well-formed message and closes its end.
Reply ==
    /\ pc = "reply"
    /\ \E m \in Messages :
         /\ sent' = m
         /\ stream' = Render(m)
    /\ pc' = "status"
    /\ UNCHANGED <<parseVars, response, fs, textVars, sock, packet, status_code,
                   status_text, response_headers, body>>

\* The peer answers with something else and closes its end.
ReplyMalformed ==
    /\ pc = "reply"
    /\ stream' \in MalformedReplies
    /\ pc' = "status"
    /\ UNCHANGED <<parseVars, response, fs, textVars, sock, packet, sent,
                   status_code, status_text, response_headers, body>>

\* status = response.readline().decode("utf-8")
\* _, status_code, status_text = status.split(" ", 2)
\* status_text = status_text.rstrip("\r\n")
ReadStatus ==
    /\ pc = "status"
    /\ LET parts == SplitStatus(ReadLine(stream))
       IN IF Len(parts) = 3
          THEN /\ status_code' = parts[2]
               /\ status_text' = RStripNewlines(parts[3])
               /\ stream' = AfterLine(stream)
               /\ pc' = "headers"
               /\ UNCHANGED response
          ELSE /\ Propagate("ValueError")
               /\ UNCHANGED <<status_code, status_text, stream>>
    /\ UNCHANGED <<parseVars, fs, textVars, sock, packet, sent,
                   response_headers, body>>

\* One turn of the loop "while True:": read a line; leave the loop on "\r\n",
\* else file the header under its casefolded name.
ReadHeader ==
    /\ pc = "headers"
    /\ LET line == ReadLine(stream)
           parts == SplitHeader(line)
       IN IF line = CRLF
          THEN /\ pc' = "body"
               /\ stream' = AfterLine(stream)
               /\ UNCHANGED <<response, response_headers>>
          ELSE IF Len(parts) = 2
          THEN /\ response_headers' =
                    SetItem(response_headers, Casefold(parts[1]), Strip(parts[2]))
               /\ stream' = AfterLine(stream)
               /\ UNCHANGED <<pc, response>>
          ELSE /\ Propagate("ValueError")
               /\ UNCHANGED <<stream, response_headers>>
    /\ UNCHANGED <<parseVars, fs, textVars, sock, packet, sent, status_code,
                   status_text, body>>

\* body = response.read()
ReadBody ==
    /\ pc = "body"
    /\ body' = stream
    /\ stream' = <<>>
    /\ pc' = "close"
    /\ UNCHANGED <<parseVars, response, fs, textVars, sock, packet, sent,
                   status_code, status_text, response_headers>>

\* s.close()
Close ==
    /\ pc = "close"
    /\ sock' = "closed"
    /\ pc' = "return"
    /\ UNCHANGED <<parseVars, response, fs, textVars, packet, stream, sent,
                   status_code, status_text, response_headers, body>>

\* return HTTPResponse(status_code=int(status_code), ...)
Return ==
    /\ pc = "return"
    /\ IF IsNumeric(status_code)
       THEN /\ response' = HTTPResponse(IntOf(status_code), status_text,
                                        response_headers, body)
            /\ pc' = "returned"
       ELSE Propagate("ValueError")
    /\ UNCHANGED <<parseVars, fs, textVars, netVars>>

NextHTTP ==
    \/ Connect \/ ConnectFails
    \/ Send \/ SendFails
    \/ Reply \/ ReplyMalformed
    \/ ReadStatus \/ ReadHeader \/ ReadBody
    \/ Close \/ Return

SpecHTTP == InitHTTP /\ [][NextHTTP]_vars

-----------------------------------------------------------------------------
(* Claims about Network Fetch, checked under SpecHTTP.                     *)

\* The headers mapping a message's header lines describe: each line's key
\* with its value, a later line of the same key winning.
DescribedHeaders(hs) ==
    { <<hs[i].key, hs[i].value>> : i \in
        {i \in 1..Len(hs) : \A j \in (i + 1)..Len(hs) : hs[j].key # hs[i].key} }

\* The decimal value of a message's status code, digit by digit.
DigitValue(c) ==
    CASE c = "0" -> 0 [] c = "1" -> 1 [] c = "2" -> 2 [] c = "3" -> 3
      [] c = "4" -> 4 [] c = "5" -> 5 [] c = "6" -> 6 [] c = "7" -> 7
      [] c = "8" -> 8 [] c = "9" -> 9

RECURSIVE DecimalValue(_, _)
DecimalValue(s, acc) ==
    IF s = <<>> THEN acc ELSE DecimalValue(Tail(s), 10 * acc + DigitValue(s[1]))

C10_SocketClosedOnEveryPath ==
    (pc \in {"returned", "raised"} /\ sock # "none") => sock = "closed"

=============================================================================
